---- MODULE Spec2Model ----
(***************************************************************************)
(* Valiant: a RESP key-value server.  src/src/resp.rs (value model, frame  *)
(* decoder, connection), src/src/main.rs (connection driver and command    *)
(* dispatch), src/src/store.rs (the shared map).                           *)
(*                                                                         *)
(* Bytes are their numeric codes (ASCII / UTF-8 code units); a string or   *)
(* buffer is a sequence of bytes.                                          *)
(***************************************************************************)
EXTENDS Integers, Sequences, FiniteSets, TLC

\* ------------------------------------------------------------------ bounds
\* Longest text of a value drawn as codec input.
MaxTextLen == 3
\* Most bytes a client may have in flight (sent, not yet read by the server).
MaxWire == 28
\* Most frames sent by all clients together.
MaxSends == 2
\* Most reads that return fewer bytes than the client has sent.
MaxShortReads == 1
\* Longest proper prefix a short write puts on the transport.
MaxPartialWrite == 1
\* Most tokens (a marker, a sign, a digit, a letter, a line terminator) of a
\* buffer put together freely as decoder input.
MaxRawTokens == 4

\* ------------------------------------------------------------ byte strings
CARRIAGE_RETURN == 13
NEWLINE == 10

CRLF == <<CARRIAGE_RETURN, NEWLINE>>

\* Marker bytes '+', '-', '$', '*' as sequences, so they concatenate.
PlusMark   == <<43>>
MinusMark  == <<45>>
DollarMark == <<36>>
StarMark   == <<42>>

IsDigit(b) == b >= 48 /\ b <= 57

\* format!("{}", n) for n >= 0: the decimal digits of n.
RECURSIVE FormatNat(_)
FormatNat(n) ==
    IF n < 10 THEN <<48 + n>> ELSE FormatNat(n \div 10) \o <<48 + (n % 10)>>

\* ------------------------------------------------------------------ values
\* enum Value: every variant is a record of the same shape.
Null == [tag |-> "Null", s |-> <<>>, items |-> <<>>]
SimpleString(t) == [tag |-> "SimpleString", s |-> t, items |-> <<>>]
Error(t) == [tag |-> "Error", s |-> t, items |-> <<>>]
BulkString(t) == [tag |-> "BulkString", s |-> t, items |-> <<>>]
Array(vs) == [tag |-> "Array", s |-> <<>>, items |-> vs]

\* Result<Option<(Value, usize)>> of the decoders, plus the task aborting.
Done(v, n)  == [kind |-> "Done", value |-> v, len |-> n, err |-> "none"]
Incomplete  == [kind |-> "Incomplete", value |-> Null, len |-> 0, err |-> "none"]
Fails(msg)  == [kind |-> "Fails", value |-> Null, len |-> 0, err |-> msg]
Panic(msg)  == [kind |-> "Panic", value |-> Null, len |-> 0, err |-> msg]

\* ------------------------------------------------------------------- text
\* String::from_utf8 succeeds: one-byte and two-byte forms (lead bytes above
\* 223 are outside the byte alphabet of this model).
RECURSIVE Utf8Valid(_)
Utf8Valid(bytes) ==
    IF bytes = <<>> THEN TRUE
    ELSE IF bytes[1] < 128 THEN Utf8Valid(Tail(bytes))
    ELSE IF /\ bytes[1] >= 194 /\ bytes[1] <= 223
            /\ Len(bytes) >= 2
            /\ bytes[2] >= 128 /\ bytes[2] <= 191
         THEN Utf8Valid(Tail(Tail(bytes)))
    ELSE FALSE

\* s.chars().count(): the bytes that start a character.
RECURSIVE CharsCount(_)
CharsCount(bytes) ==
    IF bytes = <<>> THEN 0
    ELSE (IF bytes[1] >= 128 /\ bytes[1] <= 191 THEN 0 ELSE 1) + CharsCount(Tail(bytes))

\* fn parse_string: Ok(text) or Err("Could not parse string").
parse_string(bytes) ==
    IF Utf8Valid(bytes) THEN [ok |-> TRUE, s |-> bytes, err |-> "none"]
    ELSE [ok |-> FALSE, s |-> <<>>, err |-> "Could not parse string"]

\* The value of a run of decimal digits.
RECURSIVE DigitsValue(_)
DigitsValue(ds) ==
    IF ds = <<>> THEN 0
    ELSE 10 * DigitsValue(SubSeq(ds, 1, Len(ds) - 1)) + (ds[Len(ds)] - 48)

\* str::parse::<i64>: an optional sign, then one or more digits.  (The lines
\* of this model are too short to leave the range of i64.)
ParseI64(str) ==
    LET signed == str # <<>> /\ (str[1] = 43 \/ str[1] = 45)
        digits == IF signed THEN Tail(str) ELSE str
    IN  IF digits # <<>> /\ \A i \in 1..Len(digits) : IsDigit(digits[i])
        THEN [ok |-> TRUE,
              n |-> IF signed /\ str[1] = 45 THEN 0 - DigitsValue(digits)
                    ELSE DigitsValue(digits)]
        ELSE [ok |-> FALSE, n |-> 0]

\* fn parse_integer.
parse_integer(bytes) ==
    LET str_integer == parse_string(bytes)
        parsed == ParseI64(str_integer.s)
    IN  IF ~str_integer.ok THEN [ok |-> FALSE, n |-> 0, err |-> str_integer.err]
        ELSE IF ~parsed.ok THEN [ok |-> FALSE, n |-> 0, err |-> "Could not parse integer"]
        ELSE [ok |-> TRUE, n |-> parsed.n, err |-> "none"]

\* fn read_until_crlf: the first CR LF of the slice; the line before it and the
\* index just after it.
read_until_crlf(buffer) ==
    LET hits == {i \in 1..(Len(buffer) - 1) :
                    buffer[i] = CARRIAGE_RETURN /\ buffer[i + 1] = NEWLINE}
    IN  IF hits = {} THEN [found |-> FALSE, line |-> <<>>, len |-> 0]
        ELSE LET i == CHOOSE h \in hits : \A g \in hits : h <= g
             IN  [found |-> TRUE, line |-> SubSeq(buffer, 1, i - 1), len |-> i + 1]

\* ------------------------------------------------------------ usize offsets
\* A 64-bit unsigned offset is written as the integer congruent to it modulo
\* 2^64 that is nearest zero: a negative k stands for 2^64 + k.  UAdd is the
\* wrapping sum and UCarry tells whether the true sum left the 64-bit range.
UAdd(a, b) == a + b
UCarry(a, b) == (a < 0 \/ b < 0) /\ a + b >= 0
\* a <= b on the unsigned values, for b a buffer length.
ULeq(a, b) == a >= 0 /\ a <= b

\* ------------------------------------------------------------------ encoder
\* Value::encode: the wire bytes, or the panic of the last arm.
encode(v) ==
    CASE v.tag = "Null" ->
            [panic |-> FALSE, bytes |-> DollarMark \o MinusMark \o <<49>> \o CRLF]
      [] v.tag = "SimpleString" ->
            [panic |-> FALSE, bytes |-> PlusMark \o v.s \o CRLF]
      [] v.tag = "Error" ->
            [panic |-> FALSE, bytes |-> MinusMark \o v.s \o CRLF]
      [] v.tag = "BulkString" ->
            [panic |-> FALSE,
             bytes |-> DollarMark \o FormatNat(CharsCount(v.s)) \o CRLF \o v.s \o CRLF]
      [] OTHER -> [panic |-> TRUE, bytes |-> <<>>]

\* ------------------------------------------------------------------ decoder
\* `checked` is the build's overflow-checks setting: with it an overflowing
\* addition panics, without it the sum wraps.

\* fn decode_simple_string: the line is validated, and the only value the
\* function yields is Ok(None).
decode_simple_string(buffer) ==
    LET r == read_until_crlf(Tail(buffer))
    IN  IF r.found
        THEN LET str == parse_string(r.line)
             IN  IF ~str.ok THEN Fails(str.err) ELSE Incomplete
        ELSE Incomplete

\* Mutant of decode_bulk_string: the payload must be in the buffer, its
\* terminator need not be.
decode_bulk_string_short_check(buffer, checked) ==
    LET r == read_until_crlf(Tail(buffer))
    IN  IF ~r.found THEN Incomplete
        ELSE
        LET bulk_length == parse_integer(r.line)
            bytes_consumed == r.len + 1
            end_of_bulk == UAdd(bytes_consumed, bulk_length.n)
            end_of_bulk_line == UAdd(end_of_bulk, 2)
        IN  IF ~bulk_length.ok THEN Fails(bulk_length.err)
            ELSE IF ULeq(end_of_bulk, Len(buffer)) /\ bytes_consumed <= end_of_bulk
            THEN LET str == parse_string(SubSeq(buffer, bytes_consumed + 1, end_of_bulk))
                 IN  IF ~str.ok THEN Fails(str.err)
                     ELSE Done(BulkString(str.s), end_of_bulk_line)
            ELSE Incomplete

\* fn decode_bulk_string.
decode_bulk_string(buffer, checked) ==
    LET r == read_until_crlf(Tail(buffer))
    IN  IF ~r.found THEN Incomplete
        ELSE
        LET bulk_length == parse_integer(r.line)
            bytes_consumed == r.len + 1
            end_of_bulk == UAdd(bytes_consumed, bulk_length.n)
            end_of_bulk_line == UAdd(end_of_bulk, 2)
        IN  IF ~bulk_length.ok THEN Fails(bulk_length.err)
            ELSE IF checked /\ (UCarry(bytes_consumed, bulk_length.n) \/ UCarry(end_of_bulk, 2))
            THEN Panic("attempt to add with overflow")
            ELSE IF ULeq(end_of_bulk_line, Len(buffer))
            THEN IF end_of_bulk < 0 \/ end_of_bulk > Len(buffer)
                 THEN Panic("range end index out of range")
                 ELSE IF bytes_consumed > end_of_bulk
                 THEN Panic("slice index starts after its end")
                 ELSE LET str == parse_string(SubSeq(buffer, bytes_consumed + 1, end_of_bulk))
                      IN  IF ~str.ok THEN Fails(str.err)
                          ELSE Done(BulkString(str.s), end_of_bulk_line)
            ELSE Incomplete

RECURSIVE parse_message(_, _)
RECURSIVE decode_items(_, _, _, _, _)

\* The loop of decode_array: `remaining` children are still to be decoded from
\* buffer[bytes_consumed..].
decode_items(buffer, remaining, bytes_consumed, items, checked) ==
    IF remaining <= 0 THEN Done(Array(items), bytes_consumed)
    ELSE LET r == parse_message(SubSeq(buffer, bytes_consumed + 1, Len(buffer)), checked)
         IN  CASE r.kind = "Done" ->
                    decode_items(buffer, remaining - 1, bytes_consumed + r.len,
                                 Append(items, r.value), checked)
               [] r.kind = "Incomplete" -> Incomplete
               [] OTHER -> r

\* Mutant of decode_array: the children are decoded from one byte too early.
decode_array_short_header(buffer, checked) ==
    LET r == read_until_crlf(Tail(buffer))
    IN  IF ~r.found THEN Incomplete
        ELSE LET array_length == parse_integer(r.line)
             IN  IF ~array_length.ok THEN Fails(array_length.err)
                 ELSE decode_items(buffer, array_length.n, r.len, <<>>, checked)

\* fn decode_array.
decode_array(buffer, checked) ==
    LET r == read_until_crlf(Tail(buffer))
    IN  IF ~r.found THEN Incomplete
        ELSE LET array_length == parse_integer(r.line)
             IN  IF ~array_length.ok THEN Fails(array_length.err)
                 ELSE decode_items(buffer, array_length.n, r.len + 1, <<>>, checked)

\* fn parse_message: buffer[0] of an empty buffer is out of bounds.
parse_message(buffer, checked) ==
    IF buffer = <<>> THEN Panic("index out of bounds")
    ELSE CASE buffer[1] = 43 -> decode_simple_string(buffer)
           [] buffer[1] = 42 -> decode_array(buffer, checked)
           [] buffer[1] = 36 -> decode_bulk_string(buffer, checked)
           [] OTHER -> Fails("unrecognised message type")

\* ------------------------------------------------------------- wire format
\* What a client puts on the wire for a value (spec section 6): the length
\* of a payload string is its byte length, a sequence is its count line
\* followed by its children's frames.
RECURSIVE WireFrame(_)
RECURSIVE WireFrames(_)
WireFrames(vs) ==
    IF vs = <<>> THEN <<>> ELSE WireFrame(Head(vs)) \o WireFrames(Tail(vs))

WireFrame(v) ==
    CASE v.tag = "Null" -> DollarMark \o MinusMark \o <<49>> \o CRLF
      [] v.tag = "SimpleString" -> PlusMark \o v.s \o CRLF
      [] v.tag = "Error" -> MinusMark \o v.s \o CRLF
      [] v.tag = "BulkString" -> DollarMark \o FormatNat(Len(v.s)) \o CRLF \o v.s \o CRLF
      [] OTHER -> StarMark \o FormatNat(Len(v.items)) \o CRLF \o WireFrames(v.items)

\* -------------------------------------------------------------------- state
VARIABLES
    checked,    \* the build: overflow checks on (TRUE) or wrapping arithmetic
    \* the codec under test
    cMode,      \* "roundtrip" | "split" | "raw" | "off"
    cPhase,     \* "start" | "encoded" | "framed" | "half" | "done" | "off"
    cValue,     \* the value drawn
    cFrame,     \* its bytes on the wire ("raw": the bytes drawn)
    cSplit,     \* the offset at which the frame is split
    cFirst,     \* the decoder's answer on the first cSplit bytes
    cResult,    \* the decoder's answer on all bytes
    \* the server
    pc,         \* per connection: where handle_connection is
    wire,       \* per connection: bytes sent by the client, not yet read
    closed,     \* per connection: the client has shut its side
    buffer,     \* per connection: RespConnection.buffer
    value,      \* per connection: the value read_value returned last
    response,   \* per connection: the response of the last dispatch
    offered,    \* per connection: the bytes handed to the last stream.write
    accepted,   \* per connection: the bytes that write put on the transport
    error,      \* per connection: the Err or panic message that ended the task
    store,      \* Store.data
    lock,       \* the Mutex around the store
    nsent,      \* frames sent by all clients so far
    nshort      \* reads so far that returned only a part of the bytes in flight

codecVars == <<cMode, cPhase, cValue, cFrame, cSplit, cFirst, cResult>>
serverVars == <<pc, wire, closed, buffer, value, response, offered, accepted,
                error, store, lock, nsent, nshort>>
vars == <<checked, codecVars, serverVars>>

Conns == {1, 2}

\* ------------------------------------------------------------ codec inputs
TextAlphabet == {104, 49, CARRIAGE_RETURN, NEWLINE, 195, 169}

RECURSIVE SeqsUpTo(_, _)
SeqsUpTo(S, n) ==
    IF n = 0 THEN {<<>>}
    ELSE LET shorter == SeqsUpTo(S, n - 1)
         IN  shorter \cup {Append(t, b) : t \in {u \in shorter : Len(u) = n - 1}, b \in S}

HasCRLF(t) == read_until_crlf(t).found

\* The contents a Rust String can have.
Texts == {t \in SeqsUpTo(TextAlphabet, MaxTextLen) : Utf8Valid(t)}
\* Status and ErrorMessage texts hold no line terminator.
LineTexts == {t \in Texts : ~HasCRLF(t)}

\* Every encodable value that is not a Sequence.
EncodableValues ==
    {Null} \cup {SimpleString(t) : t \in LineTexts} \cup {Error(t) : t \in LineTexts}
           \cup {BulkString(t) : t \in Texts}

\* Valid frames: Status, Payload string, Sequences of them, nested.
LeafValues ==
    {SimpleString(<<79, 75>>), BulkString(<<>>), BulkString(<<104, 105>>),
     BulkString(<<195, 169>>)}
FlatSequences ==
    {Array(<<>>)} \cup {Array(<<a>>) : a \in LeafValues}
                  \cup {Array(<<a, b>>) : a \in LeafValues, b \in LeafValues}
NestedSequences ==
    {Array(<<a>>) : a \in FlatSequences}
        \cup {Array(<<a, b>>) : a \in {Array(<<>>), Array(<<BulkString(<<104, 105>>)>>)},
                                b \in LeafValues}
FrameValues == LeafValues \cup FlatSequences \cup NestedSequences

\* Buffers as read_value may hand them to parse_message: any bytes, at least
\* one.  They are put together from the tokens of the protocol, or are a
\* valid frame cut short or followed by the start of what comes next.
RawTokens ==
    {DollarMark, StarMark, PlusMark, MinusMark, <<49>>, <<50>>, <<97>>, CRLF}

RECURSIVE TokenSeqs(_)
TokenSeqs(n) ==
    IF n = 0 THEN {<<>>}
    ELSE LET shorter == TokenSeqs(n - 1)
         IN  shorter \cup {s \o t : s \in shorter, t \in RawTokens}

Trailers == {<<>>, DollarMark, CRLF, StarMark \o <<49>> \o CRLF}

Prefixes(bytes) == {SubSeq(bytes, 1, n) : n \in 1..Len(bytes)}

RawBuffers ==
    (TokenSeqs(MaxRawTokens)
        \cup UNION {Prefixes(WireFrame(v) \o t) : v \in FrameValues, t \in Trailers}) \ {<<>>}

\* ------------------------------------------------------------------- codec
ServerIdle ==
    /\ pc = [c \in Conns |-> "Closed"]
    /\ wire = [c \in Conns |-> <<>>]
    /\ closed = [c \in Conns |-> TRUE]
    /\ buffer = [c \in Conns |-> <<>>]
    /\ value = [c \in Conns |-> Null]
    /\ response = [c \in Conns |-> Null]
    /\ offered = [c \in Conns |-> <<>>]
    /\ accepted = [c \in Conns |-> <<>>]
    /\ error = [c \in Conns |-> "none"]
    /\ store = <<>>
    /\ lock = [state |-> "free", owner |-> 0]
    /\ nsent = 0
    /\ nshort = 0

InitCodec ==
    /\ checked \in BOOLEAN
    /\ \/ cMode = "roundtrip" /\ cValue \in EncodableValues /\ cFrame = <<>>
       \/ cMode = "split" /\ cValue \in FrameValues /\ cFrame = <<>>
       \/ cMode = "raw" /\ cValue = Null /\ cFrame \in RawBuffers
    /\ cPhase = "start"
    /\ cSplit = 0
    /\ cFirst = Incomplete
    /\ cResult = Incomplete
    /\ ServerIdle

\* encode(v).
Encode ==
    /\ cMode = "roundtrip" /\ cPhase = "start"
    /\ ~encode(cValue).panic
    /\ cFrame' = encode(cValue).bytes
    /\ cPhase' = "encoded"
    /\ UNCHANGED <<checked, cMode, cValue, cSplit, cFirst, cResult, serverVars>>

\* decode(encode(v)).
DecodeEncoded ==
    /\ cMode = "roundtrip" /\ cPhase = "encoded"
    /\ cResult' = parse_message(cFrame, checked)
    /\ cPhase' = "done"
    /\ UNCHANGED <<checked, cMode, cValue, cFrame, cSplit, cFirst, serverVars>>

\* A client frames the value and the transport splits it at some offset.
Frame ==
    /\ cMode = "split" /\ cPhase = "start"
    /\ cFrame' = WireFrame(cValue)
    /\ cSplit' \in 1..(Len(cFrame') - 1)
    /\ cPhase' = "framed"
    /\ UNCHANGED <<checked, cMode, cValue, cFirst, cResult, serverVars>>

\* decode on the first half.
FeedFirst ==
    /\ cPhase = "framed"
    /\ cFirst' = parse_message(SubSeq(cFrame, 1, cSplit), checked)
    /\ cPhase' = "half"
    /\ UNCHANGED <<checked, cMode, cValue, cFrame, cSplit, cResult, serverVars>>

\* decode after the second half was appended.
FeedRest ==
    /\ cPhase = "half"
    /\ cResult' = parse_message(cFrame, checked)
    /\ cPhase' = "done"
    /\ UNCHANGED <<checked, cMode, cValue, cFrame, cSplit, cFirst, serverVars>>

\* decode on the bytes drawn.
DecodeRaw ==
    /\ cMode = "raw" /\ cPhase = "start"
    /\ cResult' = parse_message(cFrame, checked)
    /\ cPhase' = "done"
    /\ UNCHANGED <<checked, cMode, cValue, cFrame, cSplit, cFirst, serverVars>>

NextCodec == Encode \/ DecodeEncoded \/ Frame \/ FeedFirst \/ FeedRest \/ DecodeRaw

SpecCodec == InitCodec /\ [][NextCodec]_vars

\* C1: round trip: decode(encode(v)) = Done(v, len(encode(v))) for every
\* encodable value v that is not a Sequence.
RoundTrip ==
    (cMode = "roundtrip" /\ cPhase = "done") => cResult = Done(cValue, Len(cFrame))

\* C2: incremental delivery: the first i bytes (0 < i < L) of a valid frame
\* decode to Incomplete and all L bytes decode to Done(value, L).
IncrementalDelivery ==
    (cMode = "split" /\ cPhase = "done") =>
        /\ cFirst = Incomplete
        /\ cResult = Done(cValue, Len(cFrame))


\* ------------------------------------------------------------------- store
\* Store::new.
store_new == [k \in {} |-> <<>>]
\* Store::get.
store_get(data, key) ==
    IF key \in DOMAIN data THEN [some |-> TRUE, val |-> data[key]]
    ELSE [some |-> FALSE, val |-> <<>>]
\* Store::set.
store_set(data, key, val) ==
    [k \in (DOMAIN data) \cup {key} |-> IF k = key THEN val ELSE data[k]]
\* Store::del.
store_del(data, key) == [k \in (DOMAIN data) \ {key} |-> data[k]]

\* Mutex<Store>: free, held by a task, or poisoned by a panic under the guard.
Free == [state |-> "free", owner |-> 0]
Held(c) == [state |-> "held", owner |-> c]
Poisoned == [state |-> "poisoned", owner |-> 0]

\* --------------------------------------------------------------- dispatcher
\* The string literals of main.rs.
PING == <<80, 73, 78, 71>>
ECHO == <<69, 67, 72, 79>>
GET == <<71, 69, 84>>
SET == <<83, 69, 84>>
DEL == <<68, 69, 76>>
EXISTS == <<69, 88, 73, 83, 84, 83>>
PONG == <<80, 79, 78, 71>>
OK == <<79, 75>>
DELETED == <<68, 69, 76, 69, 84, 69, 68>>
GetRequiresOneArgument ==
    <<71, 101, 116, 32, 114, 101, 113, 117, 105, 114, 101, 115, 32, 111, 110, 101, 32,
      97, 114, 103, 117, 109, 101, 110, 116>>
SetRequiresTwoArguments ==
    <<83, 101, 116, 32, 114, 101, 113, 117, 105, 114, 101, 115, 32, 116, 119, 111, 32,
      97, 114, 103, 117, 109, 101, 110, 116, 115>>
DelRequiresOneArgument ==
    <<68, 101, 108, 32, 114, 101, 113, 117, 105, 114, 101, 115, 32, 111, 110, 101, 32,
      97, 114, 103, 117, 109, 101, 110, 116>>
ExistsRequiresOneArgument ==
    <<69, 120, 105, 115, 116, 115, 32, 114, 101, 113, 117, 105, 114, 101, 115, 32, 111,
      110, 101, 32, 97, 114, 103, 117, 109, 101, 110, 116>>
CommandNotImplemented ==
    <<99, 111, 109, 109, 97, 110, 100, 32, 110, 111, 116, 32, 105, 109, 112, 108, 101,
      109, 101, 110, 116, 101, 100, 58, 32>>

\* str::to_ascii_lowercase.
to_ascii_lowercase(str) ==
    [i \in 1..Len(str) |-> IF str[i] >= 65 /\ str[i] <= 90 THEN str[i] + 32 ELSE str[i]]

\* Mutant of match_key: the name is upper-cased, so the literal arms match.
match_key_upper(command) ==
    [i \in 1..Len(command) |->
        IF command[i] >= 97 /\ command[i] <= 122 THEN command[i] - 32 ELSE command[i]]

\* The string the match of handle_connection compares with its literals.
match_key(command) == to_ascii_lowercase(command)

\* Value::to_command with Value::unwrap_bulk.
to_command(v) ==
    IF v.tag # "Array"
    THEN [kind |-> "err", command |-> <<>>, args |-> <<>>, err |-> "not an array"]
    ELSE IF v.items = <<>>
    THEN [kind |-> "panic", command |-> <<>>, args |-> <<>>,
          err |-> "called Option::unwrap() on a None value"]
    ELSE IF v.items[1].tag # "BulkString"
    THEN [kind |-> "panic", command |-> <<>>, args |-> <<>>, err |-> "not a bulk string"]
    ELSE [kind |-> "ok", command |-> v.items[1].s, args |-> Tail(v.items), err |-> "none"]

\* What one dispatch does: it replies, returns Err, panics, or never returns.
Reply(v, data) ==
    [kind |-> "reply", response |-> v, store |-> data, lock |-> Free, err |-> "none"]
Outcome(kind, data, lk, msg) ==
    [kind |-> kind, response |-> Null, store |-> data, lock |-> lk, err |-> msg]

\* client_store.lock().unwrap(): `body` is what follows once the guard is
\* held; a poisoned lock panics the unwrap, a held one never returns.
Guarded(data, lk, body) ==
    IF lk.state = "free" THEN body
    ELSE IF lk.state = "poisoned" THEN {Outcome("panic", data, lk, "PoisonError")}
    ELSE {Outcome("blocked", data, lk, "none")}

IsBulk(args, i) == Len(args) >= i /\ args[i].tag = "BulkString"

\* The match of handle_connection: the arms in order.  In the DEL arm the
\* guard of the `if let` is still alive when the lock is taken again: the
\* second lock() of the same thread never returns (it panics, which poisons
\* the mutex, or it deadlocks with the mutex held).
command_response(c, command, args, data, lk) ==
    LET name == match_key(command)
    IN  CASE name = PING -> {Reply(SimpleString(PONG), data)}
          [] name = ECHO ->
                IF args = <<>>
                THEN {Outcome("panic", data, lk, "called Option::unwrap() on a None value")}
                ELSE {Reply(args[1], data)}
          [] name = GET ->
                IF IsBulk(args, 1)
                THEN Guarded(data, lk,
                        LET val == store_get(data, args[1].s)
                        IN  {Reply(IF val.some THEN SimpleString(val.val) ELSE Null, data)})
                ELSE {Reply(Error(GetRequiresOneArgument), data)}
          [] name = SET ->
                IF IsBulk(args, 1) /\ IsBulk(args, 2)
                THEN Guarded(data, lk,
                        {Reply(SimpleString(OK), store_set(data, args[1].s, args[2].s))})
                ELSE {Reply(Error(SetRequiresTwoArguments), data)}
          [] name = DEL ->
                IF IsBulk(args, 1)
                THEN Guarded(data, lk,
                        IF store_get(data, args[1].s).some
                        THEN {Outcome("panic", data, Poisoned, "lock held by this thread"),
                              Outcome("deadlock", data, Held(c), "none")}
                        ELSE {Reply(Null, data)})
                ELSE {Reply(Error(DelRequiresOneArgument), data)}
          [] name = EXISTS ->
                IF IsBulk(args, 1)
                THEN Guarded(data, lk,
                        {Reply(SimpleString(IF store_get(data, args[1].s).some
                                            THEN <<49>> ELSE <<48>>), data)})
                ELSE {Reply(Error(ExistsRequiresOneArgument), data)}
          [] OTHER -> {Reply(Error(CommandNotImplemented \o command), data)}

\* One pass of the loop body of handle_connection after read_value returned.
handle_request(c, v, data, lk) ==
    LET cmd == to_command(v)
    IN  IF cmd.kind = "ok" THEN command_response(c, cmd.command, cmd.args, data, lk)
        ELSE {Outcome(cmd.kind, data, lk, cmd.err)}

\* Where the task is after a dispatch with the given outcome.
after_dispatch(kind) ==
    CASE kind = "reply" -> "Writing"
      [] kind = "err" -> "Errored"
      [] kind = "panic" -> "Aborted"
      [] OTHER -> "Blocked"

\* Mutant of after_parse: a parse error is skipped and the loop reads on.
after_parse_lenient(kind) ==
    CASE kind = "Done" -> "Dispatching"
      [] kind = "Incomplete" -> "Reading"
      [] kind = "Fails" -> "Reading"
      [] OTHER -> "Aborted"

\* Where read_value leaves the task after parse_message answered.
after_parse(kind) ==
    CASE kind = "Done" -> "Dispatching"
      [] kind = "Incomplete" -> "Reading"
      [] kind = "Fails" -> "Errored"
      [] OTHER -> "Aborted"

\* BytesMut::split: the bytes handed to parse_message, and what stays behind.
split_taken(buf) == buf
split_left(buf) == <<>>

\* stream.write(bytes): the counts the transport may accept (all of the
\* bytes, or only the first few).
write_counts(len) == {n \in 1..len : n = len \/ n <= MaxPartialWrite}

\* ------------------------------------------------------------------ clients
Key == <<107>>
Val == <<118>>
Cmd(name, args) == Array(<<BulkString(name)>> \o args)

\* Well-formed requests, in several letter cases, with good and bad arguments.
CommandRequests ==
    {Cmd(PING, <<>>), Cmd(<<112, 105, 110, 103>>, <<>>), Cmd(<<80, 105, 110, 103>>, <<>>),
     Cmd(SET, <<BulkString(Key), BulkString(Val)>>),
     Cmd(GET, <<BulkString(Key)>>),
     Cmd(DEL, <<BulkString(Key)>>),
     Cmd(EXISTS, <<BulkString(Key)>>),
     Cmd(ECHO, <<>>),
     Cmd(SET, <<BulkString(Key)>>),
     Cmd(GET, <<Array(<<>>)>>),
     Cmd(ECHO, <<Array(<<>>)>>),
     Cmd(<<70, 79, 79>>, <<>>)}

\* Decodable values that are no request: not a Sequence, an empty Sequence, a
\* Sequence whose first element is no Payload string.
ShapeErrorValues ==
    {BulkString(<<104, 105>>), Array(<<>>), Array(<<Array(<<>>)>>)}

\* Frames the decoder rejects: an unknown leading byte, a length and a count
\* that are no numbers, a payload that is no text.
MalformedFrames ==
    {<<33>> \o CRLF,
     DollarMark \o <<120>> \o CRLF,
     StarMark \o <<120>> \o CRLF,
     DollarMark \o <<49>> \o CRLF \o <<255>> \o CRLF}

ClientFrames ==
    {WireFrame(v) : v \in CommandRequests \cup ShapeErrorValues} \cup MalformedFrames

\* ------------------------------------------------------------------- server
CodecOff ==
    /\ cMode = "off" /\ cPhase = "off"
    /\ cValue = Null /\ cFrame = <<>> /\ cSplit = 0
    /\ cFirst = Incomplete /\ cResult = Incomplete

\* main: the store is new, the mutex free; every accepted connection starts
\* handle_connection with an empty buffer.
Init ==
    /\ checked \in BOOLEAN
    /\ CodecOff
    /\ pc = [c \in Conns |-> "Reading"]
    /\ wire = [c \in Conns |-> <<>>]
    /\ closed = [c \in Conns |-> FALSE]
    /\ buffer = [c \in Conns |-> <<>>]
    /\ value = [c \in Conns |-> Null]
    /\ response = [c \in Conns |-> Null]
    /\ offered = [c \in Conns |-> <<>>]
    /\ accepted = [c \in Conns |-> <<>>]
    /\ error = [c \in Conns |-> "none"]
    /\ store = store_new
    /\ lock = Free
    /\ nsent = 0
    /\ nshort = 0

\* A client writes one frame to its connection.
ClientSend(c) ==
    /\ ~closed[c]
    /\ nsent < MaxSends
    /\ \E f \in ClientFrames :
          /\ Len(wire[c]) + Len(f) <= MaxWire
          /\ wire' = [wire EXCEPT ![c] = @ \o f]
    /\ nsent' = nsent + 1
    /\ UNCHANGED <<checked, codecVars, pc, closed, buffer, value, response, offered,
                   accepted, error, store, lock, nshort>>

\* A client shuts its side of the connection, having sent all it sends.
\* (Bytes still in flight are read first: the end of the stream is seen
\* once they are gone.)
ClientClose(c) ==
    /\ ~closed[c]
    /\ wire[c] = <<>>
    /\ pc[c] = "Reading"
    /\ closed' = [closed EXCEPT ![c] = TRUE]
    /\ UNCHANGED <<checked, codecVars, pc, wire, buffer, value, response, offered,
                   accepted, error, store, lock, nsent, nshort>>

\* The task is over: Ok(()) was returned, an Err was returned (and unwrapped
\* in the spawned task), or a panic unwound it.
Ended(p) == p \in {"Closed", "Errored", "Aborted"}

\* The stream of a task: when the task ends its TcpStream is dropped, unread
\* bytes are discarded and the client can send no more.
stream_after(p, bytes) == IF Ended(p) THEN <<>> ELSE bytes
closed_after(p, was) == Ended(p) \/ was

\* read_value, one pass of its loop: read_buf appends n > 0 bytes, and
\* parse_message gets buffer.split().
Read(c) ==
    /\ pc[c] = "Reading"
    /\ \E n \in 1..Len(wire[c]) :
          LET short == n < Len(wire[c])
              filled == buffer[c] \o SubSeq(wire[c], 1, n)
              r == parse_message(split_taken(filled), checked)
              p == after_parse(r.kind)
          IN  /\ short => nshort < MaxShortReads
              /\ nshort' = IF short THEN nshort + 1 ELSE nshort
              /\ wire' = [wire EXCEPT ![c] = stream_after(p, SubSeq(@, n + 1, Len(@)))]
              /\ closed' = [closed EXCEPT ![c] = closed_after(p, @)]
              /\ buffer' = [buffer EXCEPT ![c] = split_left(filled)]
              /\ pc' = [pc EXCEPT ![c] = p]
              /\ value' = [value EXCEPT ![c] = IF r.kind = "Done" THEN r.value ELSE @]
              /\ error' = [error EXCEPT ![c] = IF r.kind \in {"Fails", "Panic"} THEN r.err ELSE @]
    /\ UNCHANGED <<checked, codecVars, response, offered, accepted, store, lock, nsent>>

\* Mutant of ReadEof: the end of the stream is reported as an error.
ReadEofAsError(c) ==
    /\ pc[c] = "Reading"
    /\ wire[c] = <<>> /\ closed[c]
    /\ pc' = [pc EXCEPT ![c] = "Errored"]
    /\ error' = [error EXCEPT ![c] = "unexpected end of stream"]
    /\ UNCHANGED <<checked, codecVars, wire, closed, buffer, value, response, offered,
                   accepted, store, lock, nsent, nshort>>

\* read_value: read_buf read no byte; handle_connection returns Ok(()).
ReadEof(c) ==
    /\ pc[c] = "Reading"
    /\ wire[c] = <<>> /\ closed[c]
    /\ pc' = [pc EXCEPT ![c] = "Closed"]
    /\ UNCHANGED <<checked, codecVars, wire, closed, buffer, value, response, offered,
                   accepted, error, store, lock, nsent, nshort>>

\* read_buf or write returns Err: `?` ends handle_connection.
TransportError(c) ==
    /\ pc[c] \in {"Reading", "Writing"}
    /\ pc' = [pc EXCEPT ![c] = "Errored"]
    /\ error' = [error EXCEPT ![c] = "transport"]
    /\ wire' = [wire EXCEPT ![c] = stream_after("Errored", @)]
    /\ closed' = [closed EXCEPT ![c] = closed_after("Errored", @)]
    /\ UNCHANGED <<checked, codecVars, buffer, value, response, offered,
                   accepted, store, lock, nsent, nshort>>

\* to_command and the match, up to the call of write_value.
Dispatch(c) ==
    /\ pc[c] = "Dispatching"
    /\ \E o \in handle_request(c, value[c], store, lock) :
          LET p == after_dispatch(o.kind)
          IN  /\ pc' = [pc EXCEPT ![c] = p]
              /\ response' = [response EXCEPT ![c] = IF o.kind = "reply" THEN o.response ELSE @]
              /\ error' = [error EXCEPT ![c] = IF o.kind \in {"err", "panic"} THEN o.err ELSE @]
              /\ wire' = [wire EXCEPT ![c] = stream_after(p, @)]
              /\ closed' = [closed EXCEPT ![c] = closed_after(p, @)]
              /\ store' = o.store
              /\ lock' = o.lock
    /\ UNCHANGED <<checked, codecVars, buffer, value, offered, accepted, nsent, nshort>>

\* write_value: encode, then one stream.write whose count is dropped; the
\* locals of the loop body (value, response) end with the iteration.
Write(c) ==
    /\ pc[c] = "Writing"
    /\ LET e == encode(response[c])
       IN  IF e.panic
           THEN /\ pc' = [pc EXCEPT ![c] = "Aborted"]
                /\ error' = [error EXCEPT ![c] = "value encode not implemented"]
                /\ wire' = [wire EXCEPT ![c] = stream_after("Aborted", @)]
                /\ closed' = [closed EXCEPT ![c] = closed_after("Aborted", @)]
                /\ UNCHANGED <<offered, accepted, value, response>>
           ELSE /\ \E n \in write_counts(Len(e.bytes)) :
                      accepted' = [accepted EXCEPT ![c] = SubSeq(e.bytes, 1, n)]
                /\ offered' = [offered EXCEPT ![c] = e.bytes]
                /\ pc' = [pc EXCEPT ![c] = "Reading"]
                /\ value' = [value EXCEPT ![c] = Null]
                /\ response' = [response EXCEPT ![c] = Null]
                /\ UNCHANGED <<error, wire, closed>>
    /\ UNCHANGED <<checked, codecVars, buffer, store, lock, nsent, nshort>>

Next ==
    \E c \in Conns :
        \/ ClientSend(c)
        \/ ClientClose(c)
        \/ Read(c)
        \/ ReadEof(c)
        \/ TransportError(c)
        \/ Dispatch(c)
        \/ Write(c)

Spec == Init /\ [][Next]_vars

\* ------------------------------------------------------------------ claims
\* Two names are the same but for the case of their letters.
SameName(a, b) == to_ascii_lowercase(a) = to_ascii_lowercase(b)

\* The value is a request: a Sequence whose first element is a Payload string.
IsRequest(v) == v.tag = "Array" /\ v.items # <<>> /\ v.items[1].tag = "BulkString"
RequestName(v) == v.items[1].s
RequestArgs(v) == Tail(v.items)

\* A request for the command `name` with exactly n arguments, all Payload strings.
IsCmd(v, name, n) ==
    /\ IsRequest(v)
    /\ SameName(RequestName(v), name)
    /\ Len(RequestArgs(v)) = n
    /\ \A i \in 1..n : RequestArgs(v)[i].tag = "BulkString"

Recognized(name) == \E known \in {PING, ECHO, GET, SET, DEL, EXISTS} : SameName(name, known)

\* Connection c leaves Dispatching in this step.
Dispatched(c) == pc[c] = "Dispatching" /\ pc'[c] # "Dispatching"

\* `needle` occurs in `hay`.
Contains(hay, needle) ==
    \E i \in 0..(Len(hay) - Len(needle)) : SubSeq(hay, i + 1, i + Len(needle)) = needle

\* C3: command names are matched case-insensitively: PING in any letter case
\* with no arguments is answered Status "PONG", and a recognized command in
\* any letter case is selected (it does not fall to the default arm).
CaseInsensitiveCommands ==
    \A c \in Conns :
        (pc[c] = "Writing" /\ IsRequest(value[c])) =>
            /\ IsCmd(value[c], PING, 0) => response[c] = SimpleString(PONG)
            /\ Recognized(RequestName(value[c])) =>
                   response[c] # Error(CommandNotImplemented \o RequestName(value[c]))

\* C4: SET k v replies Status "OK" and stores k -> v; GET k replies with a
\* value carrying what the store holds for k, and Absence when k is not in
\* the store; the store changes by a SET or a DEL only.
SetThenGet ==
    [][\A c \in Conns :
          Dispatched(c) =>
              LET v == value[c]
                  k == RequestArgs(v)[1].s
              IN  /\ IsCmd(v, SET, 2) =>
                        /\ pc'[c] = "Writing"
                        /\ response'[c] = SimpleString(OK)
                        /\ k \in DOMAIN store'
                        /\ store'[k] = RequestArgs(v)[2].s
                  /\ IsCmd(v, GET, 1) =>
                        /\ pc'[c] = "Writing"
                        /\ IF k \in DOMAIN store
                           THEN /\ response'[c].tag \in {"SimpleString", "BulkString"}
                                /\ response'[c].s = store[k]
                           ELSE response'[c] = Null
                  /\ ~(IsCmd(v, SET, 2) \/ IsCmd(v, DEL, 1)) => store' = store]_vars

\* C5: DEL of a present key replies Status "DELETED" and removes the key; DEL
\* of an absent key (so a second DEL) replies Absence and leaves the store as
\* it is.
IdempotentDelete ==
    [][\A c \in Conns :
          (Dispatched(c) /\ IsCmd(value[c], DEL, 1)) =>
              LET k == RequestArgs(value[c])[1].s
              IN  /\ pc'[c] = "Writing"
                  /\ IF k \in DOMAIN store
                     THEN /\ response'[c] = SimpleString(DELETED)
                          /\ k \notin DOMAIN store'
                     ELSE /\ response'[c] = Null
                          /\ store' = store]_vars

\* C6: when the driver is back at reading (or decoding, or dispatching) the
\* next request, every byte of the encoded reply to the previous one has been
\* put on the transport.
ReplyFullyWritten ==
    \A c \in Conns : pc[c] \in {"Reading", "Dispatching"} => accepted[c] = offered[c]

\* C7: a request-shape error (the value is no Sequence, an empty Sequence, or
\* its first element is no Payload string) is answered with an ErrorMessage
\* and the task goes on to write it: no Err ends it, it does not abort.
ShapeError(v) == ~IsRequest(v)
ShapeErrorsRecoverable ==
    [][\A c \in Conns :
          (Dispatched(c) /\ ShapeError(value[c])) =>
              /\ pc'[c] = "Writing"
              /\ response'[c].tag = "Error"]_vars

\* The request is a recognized command with too few arguments or with a
\* required argument that is no Payload string, or an unrecognized command.
Arity(name) ==
    CASE SameName(name, PING) -> 0
      [] SameName(name, SET) -> 2
      [] OTHER -> 1
NeedsPayloadArgs(name) == \E known \in {GET, SET, DEL, EXISTS} : SameName(name, known)
CommandLevelError(v) ==
    /\ IsRequest(v)
    /\ \/ ~Recognized(RequestName(v))
       \/ /\ Recognized(RequestName(v))
          /\ \/ Len(RequestArgs(v)) < Arity(RequestName(v))
             \/ /\ NeedsPayloadArgs(RequestName(v))
                /\ \E i \in 1..Arity(RequestName(v)) :
                      i <= Len(RequestArgs(v)) /\ RequestArgs(v)[i].tag # "BulkString"

EchoNoArgReply == MinusMark \o CommandNotImplemented \o ECHO \o CRLF
ParseErrors ==
    {"unrecognised message type", "Could not parse integer", "Could not parse string"}
ParseErrorFatalAndSilent ==
    [][\A c \in Conns :
          /\ (error'[c] \in ParseErrors /\ error[c] = "none") =>
                /\ pc[c] = "Reading"
                /\ pc'[c] = "Errored"
                /\ offered'[c] = offered[c]
                /\ accepted'[c] = accepted[c]
          /\ pc[c] = "Errored" =>
                /\ pc'[c] = "Errored"
                /\ error'[c] = error[c]
                /\ offered'[c] = offered[c]
                /\ accepted'[c] = accepted[c]]_vars

\* Each kind of parse error has ended a connection that had written nothing.
ParseErrorEnded ==
    /\ \E c \in Conns :
          pc[c] = "Errored" /\ error[c] = "Could not parse integer" /\ offered[c] = <<>>
    /\ \E c \in Conns :
          pc[c] = "Errored" /\ error[c] \in ParseErrors \ {"Could not parse integer"}
                            /\ offered[c] = <<>>

\* C10: a task that fails ends alone: the step in which it ends changes
\* nothing of another connection, the store lock is free whenever no dispatch
\* is running, no task waits for the lock or finds it poisoned, and a store
\* command dispatched on any connection gets its reply.
StoreCommand(v) ==
    IsCmd(v, GET, 1) \/ IsCmd(v, SET, 2) \/ IsCmd(v, DEL, 1) \/ IsCmd(v, EXISTS, 1)
ConnState(c) ==
    <<pc[c], wire[c], closed[c], buffer[c], value[c], response[c], offered[c],
      accepted[c], error[c]>>
ConcurrentStoreAccess ==
    [][\A c \in Conns :
          Dispatched(c) =>
              LET v == value[c]
                  k == RequestArgs(v)[1].s
              IN  /\ IsCmd(v, SET, 2) => store' = store_set(store, k, RequestArgs(v)[2].s)
                  /\ (IsCmd(v, GET, 1) /\ k \in DOMAIN store) =>
                        /\ response'[c].tag \in {"SimpleString", "BulkString"}
                        /\ response'[c].s = store[k]
                  /\ ~(IsCmd(v, SET, 2) \/ IsCmd(v, DEL, 1)) => store' = store]_vars

\* C12: end of stream: a read that finds the stream at its end, with nothing
\* left to read, takes the connection to Closed without an error and without
\* writing (only a transport error can take its place); Closed is entered in
\* no other way; and once Closed, nothing of the connection changes again: no
\* read, no dispatch, no write.
EndOfStream ==
    [][\A c \in Conns :
          /\ (pc[c] = "Reading" /\ wire[c] = <<>> /\ closed[c]
                /\ ConnState(c)' # ConnState(c)) =>
                \/ pc'[c] = "Closed"
                \/ pc'[c] = "Errored" /\ error'[c] = "transport"
          /\ (pc[c] # "Closed" /\ pc'[c] = "Closed") =>
                /\ pc[c] = "Reading" /\ wire[c] = <<>> /\ closed[c]
                /\ error'[c] = "none"
                /\ offered'[c] = offered[c]
                /\ accepted'[c] = accepted[c]
          /\ pc[c] = "Closed" => ConnState(c)' = ConnState(c)]_vars

\* A connection was closed at the end of its stream after a request had been
\* served on it, while the other connection is still being served.
ClosedAfterServing ==
    \E c \in Conns, d \in Conns :
        /\ pc[c] = "Closed" /\ error[c] = "none"
        /\ offered[c] # <<>>
        /\ pc[d] = "Writing"

\* The bytes connection c reads from its stream in this step.
BytesRead(c) == SubSeq(wire[c], 1, Len(wire[c]) - Len(wire'[c]))
\* Connection c reads in this step and its task goes on.
ReadStep(c) ==
    /\ pc[c] = "Reading" /\ ~Ended(pc'[c])
    /\ Len(wire'[c]) < Len(wire[c])

\* C13: buffer retention on Incomplete: when a read leaves the driver in
\* Reading (decode said Incomplete) the connection buffer holds every byte
\* received so far, the bytes just read included; and a read that completes a
\* frame decodes it from all of its bytes, the ones from earlier reads too.
BufferRetention ==
    [][\A c \in Conns :
          ReadStep(c) =>
              /\ pc'[c] = "Reading" => buffer'[c] = buffer[c] \o BytesRead(c)
              /\ pc'[c] = "Dispatching" =>
                    \E n \in 1..Len(buffer[c] \o BytesRead(c)) :
                        Done(value'[c], n) = parse_message(buffer[c] \o BytesRead(c), checked)]_vars

\* C14: exact prefix removal on Done: when a read completes a frame, the
\* buffer afterwards holds exactly the bytes that follow the bytes_consumed
\* bytes of that frame, unchanged: bytes of the next frame that came with the
\* same read are not lost.
ExactPrefixRemoval ==
    [][\A c \in Conns :
          (ReadStep(c) /\ pc'[c] = "Dispatching") =>
              LET filled == buffer[c] \o BytesRead(c)
                  bytes_consumed == parse_message(filled, checked).len
              IN  buffer'[c] = SubSeq(filled, bytes_consumed + 1, Len(filled))]_vars

\* The frame is a Payload string or a Sequence whose length or count line is
\* complete and is no non-negative decimal integer.
IsNonNegativeDecimal(line) == line # <<>> /\ \A i \in 1..Len(line) : IsDigit(line[i])
MalformedLength(bytes) ==
    /\ bytes[1] \in {36, 42}
    /\ LET r == read_until_crlf(Tail(bytes))
       IN  /\ r.found
           /\ ~IsNonNegativeDecimal(r.line)
           \* digits after a plus sign are left out: they name a non-negative number
           /\ ~(r.line # <<>> /\ r.line[1] = 43 /\ IsNonNegativeDecimal(Tail(r.line)))

\* C15: a Payload-string or Sequence frame with a malformed length or count
\* line (non-digit content, a negative number) is answered with a parse error:
\* decode returns neither Done nor Incomplete and does not abort.
MalformedLengthRejected ==
    (cMode = "raw" /\ cPhase = "done" /\ MalformedLength(cFrame)) => cResult.kind = "Fails"

\* The value is a Payload string, or a Sequence of such values at any depth.
RECURSIVE PayloadTree(_)
PayloadTree(v) ==
    \/ v.tag = "BulkString"
    \/ v.tag = "Array" /\ \A i \in 1..Len(v.items) : PayloadTree(v.items[i])

\* The header line of a Sequence frame: marker, count digits, terminator.
HeaderLength(v) == 1 + Len(FormatNat(Len(v.items))) + 2
\* The bytes decode consumes for each child, summed.
RECURSIVE ChildrenConsumed(_, _)
ChildrenConsumed(children, build) ==
    IF children = <<>> THEN 0
    ELSE parse_message(WireFrame(Head(children)), build).len
            + ChildrenConsumed(Tail(children), build)

\* C16: Sequence nesting: a complete Sequence frame whose children are
\* Payload strings and Sequences decodes to Done with the children in wire
\* order, and bytes_consumed is the length of the header line plus the sum of
\* the bytes consumed by each child.
SequenceNesting ==
    (cMode = "split" /\ cPhase = "done" /\ cValue.tag = "Array" /\ PayloadTree(cValue)) =>
        /\ cResult.kind = "Done"
        /\ cResult.value = cValue
        /\ cResult.len = HeaderLength(cValue) + ChildrenConsumed(cValue.items, checked)

\* A Sequence of a Sequence and a Payload string has been decoded.
NestedSequenceDecoded ==
    /\ cMode = "split" /\ cPhase = "done"
    /\ cValue = Array(<<Array(<<BulkString(<<104, 105>>)>>), BulkString(<<195, 169>>)>>)
    /\ cResult = Done(cValue, Len(cFrame))

\* C17: decode-cursor invariant: whenever decode answers Done(value,
\* bytes_consumed), bytes_consumed is at most the length of the slice it was
\* offered.  The slices offered to the decodes of sub-values are the slices
\* buffer[bytes_consumed..], which are suffixes of the buffer.
DecodeCursorInvariant ==
    (cMode = "raw" /\ cPhase = "done") =>
        /\ cResult.kind = "Done" => cResult.len <= Len(cFrame)
        /\ \A i \in 1..(Len(cFrame) - 1) :
              LET slice == SubSeq(cFrame, i + 1, Len(cFrame))
                  sub == parse_message(slice, checked)
              IN  sub.kind = "Done" => sub.len <= Len(slice)

\* A nested Sequence was decoded from a buffer that holds more bytes than the
\* frame: its sub-values were decoded from slices longer than they are.
SubValuesDecoded ==
    /\ cMode = "raw" /\ cPhase = "done"
    /\ cResult.kind = "Done"
    /\ cResult.value = Array(<<Array(<<BulkString(<<104, 105>>)>>), BulkString(<<>>)>>)
    /\ cResult.len < Len(cFrame)

StatusRepliesOneLine ==
    \A c \in Conns :
        (pc[c] = "Writing" /\ response[c].tag = "SimpleString") => ~HasCRLF(response[c].s)

\* A Status is about to be encoded as a reply.
StatusReplyProduced ==
    \E c \in Conns : pc[c] = "Writing" /\ response[c].tag = "SimpleString"

====
